---- MODULE Spec2Model ----
(***************************************************************************)
(* Model of tracert.py: the ttl sweep of main and the two probe            *)
(* transports trace_icmp and trace_udp, statement by statement, with the   *)
(* operating system's answers to the socket calls as the environment.      *)
(***************************************************************************)
EXTENDS Integers, Sequences, FiniteSets, TLC

\* ---------------------------------------------------------------- bounds
MaxSteps == 3

Steps == 0..MaxSteps

\* addresses a router or the destination can answer from, and the
\* destinations main can be called with: an address, or a host name (line
\* 189 hands over what the user typed)
Addrs == {"10.0.0.1", "10.0.0.9"}
Dests == Addrs \cup {"far.example"}
Protocols == {"icmp", "udp"}

\* gethostbyaddr(address)[0] when the reverse lookup succeeds
HostName(a) == IF a = "10.0.0.1" THEN "gw.lan" ELSE "far.example"

\* ------------------------------------------------------------ environment
\* What the operating system and the network do to the probe sent with one
\* ttl: one of its calls raises socket.error, or select returns no readable
\* socket, or a datagram from addr is readable (and the reverse lookup of
\* addr succeeds or raises socket.error).
IcmpOps == {"socket_raw", "setsockopt", "sendto", "select", "recvfrom"}
UdpOps == IcmpOps \cup {"socket_dgram", "bind"}
OpsOf(t) == IF t = "icmp" THEN IcmpOps ELSE UdpOps

Timeout == [kind |-> "timeout", op |-> "none", addr |-> "none", dns |-> FALSE]
Answer(a, d) == [kind |-> "answer", op |-> "none", addr |-> a, dns |-> d]
Fail(o) == [kind |-> "fail", op |-> o, addr |-> "none", dns |-> FALSE]
NoOutcome == [kind |-> "none", op |-> "none", addr |-> "none", dns |-> FALSE]

Outcomes(t) ==
    {Timeout} \cup {Answer(a, d) : a \in Addrs, d \in BOOLEAN}
              \cup {Fail(o) : o \in OpsOf(t)}

VARIABLES
    dest_ip, max_steps, t_type,   \* arguments of main
    print_errors,                 \* argument of main, passed to the probes
    timeout,                      \* argument of main, passed to the probes
    pc,                           \* position of main
    i, ttl,                       \* loop variables of main
    answ, answ_name,              \* result of the last probe in main
    out,                          \* lines printed so far
    exc,                          \* exception that left main, or "none"
    ppc,                          \* position inside the running probe
    sockets,                      \* sockets open (created and not closed)
    ready,                        \* local 'ready' of the probe
    address, address_name,        \* locals of the probe
    env,                          \* environment's outcome for this probe
    topo,                         \* outcome met at ttl 1, 2, ...
    calls,                        \* ttl of every transport invocation
    log,                          \* <<ttl, operation>> of every call made
    run,                          \* 1, or 2 for the rerun over topo
    first,                        \* what run 1 printed and how it ended
    byteorder,                    \* native byte order of struct.pack
    id,                           \* identifier drawn at line 92
    source_string,                \* argument of checksum_calc
    sum, count,                   \* locals of checksum_calc
    checksum,                     \* what checksum_calc returned
    packet,                       \* the echo request of line 94
    cpc,                          \* position in lines 92-94 and checksum_calc
    argv,                         \* what the user put on the command line
    typed,                        \* what the user answers to input()
    args,                         \* the namespace of parse_args
    epc                           \* position in the __main__ block

mainVars == <<dest_ip, max_steps, t_type, print_errors, timeout>>
loopVars == <<i, ttl>>
resVars == <<answ, answ_name>>
probeVars == <<ppc, sockets, ready, address, address_name>>
envVars == <<env, topo>>
runVars == <<run, first>>
sumVars == <<byteorder, id, source_string, sum, count, checksum, packet, cpc>>
cliVars == <<argv, typed, args, epc>>
vars == <<dest_ip, max_steps, t_type, print_errors, timeout, pc, i, ttl,
          answ, answ_name, out, exc, ppc, sockets, ready, address,
          address_name, env, topo, calls, log, run, first, byteorder, id,
          source_string, sum, count, checksum, packet, cpc, argv, typed,
          args, epc>>

NoFirst == [out |-> <<>>, pc |-> "none", exc |-> "none"]

\* defaults of main's parameters, line 126
DefaultTimeout == 1
DefaultMaxSteps == 32

\* an absent value (None, an option not given) and a present one
None == <<>>
Some(x) == <<x>>
NoArgs == [destination |-> None, timeout |-> None, max_steps |-> None,
           t_type |-> None]

\* no checksum is being computed
SumIdle ==
    /\ byteorder = "little"
    /\ id = 0
    /\ source_string = <<>>
    /\ sum = 0 /\ count = 0
    /\ checksum = 0
    /\ packet = <<>>
    /\ cpc = "idle"

\* main was called directly, not from the __main__ block
CliIdle ==
    /\ argv = NoArgs
    /\ typed = ""
    /\ args = NoArgs
    /\ epc = "idle"

\* the locals of main and of the probes when main is entered
MainEntered ==
    /\ i = 0 /\ ttl = 0
    /\ answ = "None" /\ answ_name = "None"
    /\ out = <<>>
    /\ exc = "none"
    /\ ppc = "idle"
    /\ sockets = {}
    /\ ready = "unbound"
    /\ address = "None" /\ address_name = "None"
    /\ env = NoOutcome
    /\ topo = <<>>
    /\ calls = <<>>
    /\ log = <<>>
    /\ run = 1
    /\ first = NoFirst

\* main is not running
MainOutside ==
    /\ dest_ip = "None"
    /\ max_steps = DefaultMaxSteps
    /\ t_type = "icmp"
    /\ print_errors = FALSE
    /\ timeout = DefaultTimeout
    /\ pc = "outside"
    /\ MainEntered

Init ==
    /\ dest_ip \in Dests
    /\ max_steps \in Steps
    /\ t_type \in Protocols
    /\ print_errors \in BOOLEAN
    /\ timeout = DefaultTimeout
    /\ SumIdle
    /\ CliIdle
    /\ pc = "start"
    /\ i = 0 /\ ttl = 0
    /\ answ = "None" /\ answ_name = "None"
    /\ out = <<>>
    /\ exc = "none"
    /\ ppc = "idle"
    /\ sockets = {}
    /\ ready = "unbound"
    /\ address = "None" /\ address_name = "None"
    /\ env = NoOutcome
    /\ topo = <<>>
    /\ calls = <<>>
    /\ log = <<>>
    /\ run = 1
    /\ first = NoFirst

\* ------------------------------------------------------------------ output
StartLine == [kind |-> "start", index |-> 0, address |-> dest_ip, name |-> t_type]
ReachedLine == [kind |-> "reached", index |-> 0, address |-> "", name |-> ""]

\* HopLine with the test of line 132 inverted
HopLineInverted(idx, a, n) ==
    IF a # n
    THEN [kind |-> "hop", index |-> idx, address |-> a, name |-> ""]
    ELSE [kind |-> "hop_named", index |-> idx, address |-> a, name |-> n]

\* lines 132-135: '{i}. {answ}' or '{i}. {answ} ({answ_name})'
HopLine(idx, a, n) ==
    IF a = n
    THEN [kind |-> "hop", index |-> idx, address |-> a, name |-> ""]
    ELSE [kind |-> "hop_named", index |-> idx, address |-> a, name |-> n]

\* lines 41, 105 ("Main query") and 54, 122 ("DNS")
ErrorLine(where) == [kind |-> "error", index |-> 0, address |-> "", name |-> where]
\* the output after 'if print_errors: print(...)' in an except clause entered
\* when caught holds
Except(caught, where) ==
    IF caught /\ print_errors THEN Append(out, ErrorLine(where)) ELSE out

Fails(o) == env.kind = "fail" /\ env.op = o
Logged(o) == Append(log, <<ttl, o>>)

\* an exception nobody catches leaves the probe and then main
Raise(e) ==
    /\ pc' = "raised"
    /\ exc' = e
    /\ ppc' = "idle"

\* ------------------------------------------------------------------- main
\* line 128
MainStart ==
    /\ pc = "start"
    /\ out' = Append(out, StartLine)
    /\ pc' = "for"
    /\ UNCHANGED <<mainVars, loopVars, resVars, exc, probeVars, envVars,
                   calls, log, runVars, sumVars, cliVars>>

\* InRange with the stop of the range one too far
InRangeOneMore(v, m) == v <= m + 1
\* EnumNext with an index that is never advanced
EnumNextStuck(idx, t) == idx

\* EnumNext counting from 1
EnumNextFromOne(idx, t) == IF t = 0 THEN 1 ELSE idx + 1
\* range(1, max_steps + 1): the value after t, and whether it is in range
RangeNext(t) == t + 1
InRange(v, m) == v < m + 1
\* enumerate: the index that goes with the next value
EnumNext(idx, t) == IF t = 0 THEN 0 ELSE idx + 1

\* entry point of trace_funcs[t_type]
EntryOf(t) == IF t = "icmp" THEN "icmp_socket" ELSE "udp_socket_recv"

\* lines 130-131: the next (i, ttl) of the loop and the call of the
\* transport, or the end of the loop
MainFor ==
    /\ pc = "for"
    /\ IF InRange(RangeNext(ttl), max_steps)
       THEN /\ ttl' = RangeNext(ttl)
            /\ i' = EnumNext(i, ttl)
            /\ pc' = "call"
            /\ ppc' = EntryOf(t_type)
            /\ calls' = Append(calls, ttl')
            /\ ready' = "unbound"
            /\ address' = "None"
            /\ address_name' = "None"
            /\ IF ttl' <= Len(topo)
               THEN /\ env' = topo[ttl']
                    /\ topo' = topo
               ELSE /\ env' \in Outcomes(t_type)
                    /\ topo' = Append(topo, env')
            /\ UNCHANGED <<sockets>>
       ELSE /\ pc' = "done"
            /\ UNCHANGED <<loopVars, probeVars, envVars, calls>>
    /\ UNCHANGED <<mainVars, resVars, out, exc, log, runVars, sumVars, cliVars>>

\* lines 132-135
MainPrint ==
    /\ pc = "print"
    /\ out' = Append(out, HopLine(i, answ, answ_name))
    /\ pc' = "test"
    /\ UNCHANGED <<mainVars, loopVars, resVars, exc, probeVars, envVars,
                   calls, log, runVars, sumVars, cliVars>>

\* MainTest without the break of line 139
MainTestNoBreak ==
    /\ pc = "test"
    /\ out' = IF answ = dest_ip THEN Append(out, ReachedLine) ELSE out
    /\ pc' = "for"
    /\ UNCHANGED <<mainVars, loopVars, resVars, exc, probeVars, envVars,
                   calls, log, runVars, sumVars, cliVars>>

\* lines 137-139
MainTest ==
    /\ pc = "test"
    /\ IF answ = dest_ip
       THEN /\ out' = Append(out, ReachedLine)
            /\ pc' = "done"
       ELSE /\ out' = out
            /\ pc' = "for"
    /\ UNCHANGED <<mainVars, loopVars, resVars, exc, probeVars, envVars,
                   calls, log, runVars, sumVars, cliVars>>

\* ------------------------------------------------------------- trace_icmp
\* line 87
IcmpSocket ==
    /\ pc = "call" /\ ppc = "icmp_socket"
    /\ log' = Logged("socket_raw")
    /\ IF Fails("socket_raw")
       THEN /\ Raise("OSError")
            /\ UNCHANGED sockets
       ELSE /\ sockets' = sockets \cup {"my_socket"}
            /\ ppc' = "icmp_setsockopt"
            /\ UNCHANGED <<pc, exc>>
    /\ UNCHANGED <<mainVars, loopVars, resVars, out, ready, address,
                   address_name, envVars, calls, runVars, sumVars, cliVars>>

\* line 88
IcmpSetsockopt ==
    /\ pc = "call" /\ ppc = "icmp_setsockopt"
    /\ log' = Logged("setsockopt")
    /\ IF Fails("setsockopt")
       THEN Raise("OSError")
       ELSE /\ ppc' = "icmp_sendto"
            /\ UNCHANGED <<pc, exc>>
    /\ UNCHANGED <<mainVars, loopVars, resVars, out, sockets, ready, address,
                   address_name, envVars, calls, runVars, sumVars, cliVars>>

\* lines 92-99, and 103-105 when sendto raises socket.error
IcmpSendto ==
    /\ pc = "call" /\ ppc = "icmp_sendto"
    /\ log' = Logged("sendto")
    /\ out' = Except(Fails("sendto"), "Main query")
    /\ ppc' = IF Fails("sendto") THEN "icmp_check" ELSE "icmp_select"
    /\ UNCHANGED <<mainVars, pc, loopVars, resVars, exc, sockets, ready,
                   address, address_name, envVars, calls, runVars, sumVars, cliVars>>

\* Selected taken for readable whatever select returned
SelectedAlwaysReadable(e) == "readable"

\* what select.select returns in 'ready' under the environment's outcome
Selected(e) == IF e.kind = "timeout" THEN "empty" ELSE "readable"

\* line 102, and 103-105 when select raises socket.error
IcmpSelect ==
    /\ pc = "call" /\ ppc = "icmp_select"
    /\ log' = Logged("select")
    /\ out' = Except(Fails("select"), "Main query")
    /\ ready' = IF Fails("select") THEN ready ELSE Selected(env)
    /\ ppc' = "icmp_check"
    /\ UNCHANGED <<mainVars, pc, loopVars, resVars, exc, sockets,
                   address, address_name, envVars, calls, runVars, sumVars, cliVars>>

\* IcmpCheck without the close of line 109
IcmpCheckNoClose ==
    /\ pc = "call" /\ ppc = "icmp_check"
    /\ IF ready = "unbound"
       THEN /\ Raise("UnboundLocalError")
            /\ UNCHANGED <<sockets, resVars, log>>
       ELSE IF ready = "empty"
       THEN /\ answ' = "*"
            /\ answ_name' = "*"
            /\ pc' = "print"
            /\ ppc' = "idle"
            /\ UNCHANGED <<exc, sockets, log>>
       ELSE /\ ppc' = "icmp_recvfrom"
            /\ UNCHANGED <<pc, exc, sockets, resVars, log>>
    /\ UNCHANGED <<mainVars, loopVars, out, ready, address, address_name,
                   envVars, calls, runVars, sumVars, cliVars>>

\* lines 108-110: ready[0] == [] closes the socket and returns '*', '*';
\* an unbound 'ready' raises UnboundLocalError
IcmpCheck ==
    /\ pc = "call" /\ ppc = "icmp_check"
    /\ IF ready = "unbound"
       THEN /\ Raise("UnboundLocalError")
            /\ UNCHANGED <<sockets, resVars, log>>
       ELSE IF ready = "empty"
       THEN /\ sockets' = sockets \ {"my_socket"}
            /\ log' = Logged("close")
            /\ answ' = "*"
            /\ answ_name' = "*"
            /\ pc' = "print"
            /\ ppc' = "idle"
            /\ UNCHANGED exc
       ELSE /\ ppc' = "icmp_recvfrom"
            /\ UNCHANGED <<pc, exc, sockets, resVars, log>>
    /\ UNCHANGED <<mainVars, loopVars, out, ready, address, address_name,
                   envVars, calls, runVars, sumVars, cliVars>>

\* lines 112-113
IcmpRecvfrom ==
    /\ pc = "call" /\ ppc = "icmp_recvfrom"
    /\ log' = Logged("recvfrom")
    /\ IF Fails("recvfrom")
       THEN /\ Raise("OSError")
            /\ UNCHANGED address
       ELSE /\ address' = env.addr
            /\ ppc' = "icmp_close"
            /\ UNCHANGED <<pc, exc>>
    /\ UNCHANGED <<mainVars, loopVars, resVars, out, sockets, ready,
                   address_name, envVars, calls, runVars, sumVars, cliVars>>

\* line 115
IcmpClose ==
    /\ pc = "call" /\ ppc = "icmp_close"
    /\ log' = Logged("close")
    /\ sockets' = sockets \ {"my_socket"}
    /\ ppc' = "icmp_lookup"
    /\ UNCHANGED <<mainVars, pc, loopVars, resVars, out, exc, ready, address,
                   address_name, envVars, calls, runVars, sumVars, cliVars>>

\* Lookup without the fallback of lines 55, 120: the name stays None
LookupNoFallback(a, e) == IF e.dns THEN HostName(a) ELSE "None"

\* socket.gethostbyaddr(a)[0], or a when it raises socket.error
Lookup(a, e) == IF e.dns THEN HostName(a) ELSE a

\* lines 117-122
IcmpLookup ==
    /\ pc = "call" /\ ppc = "icmp_lookup"
    /\ log' = Logged("gethostbyaddr")
    /\ out' = Except(~env.dns, "DNS")
    /\ address_name' = Lookup(address, env)
    /\ ppc' = "icmp_return"
    /\ UNCHANGED <<mainVars, pc, loopVars, resVars, exc, sockets, ready,
                   address, envVars, calls, runVars, sumVars, cliVars>>

\* line 124, and the assignment of line 131
IcmpReturn ==
    /\ pc = "call" /\ ppc = "icmp_return"
    /\ answ' = address
    /\ answ_name' = address_name
    /\ pc' = "print"
    /\ ppc' = "idle"
    /\ UNCHANGED <<mainVars, loopVars, out, exc, sockets, ready, address,
                   address_name, envVars, calls, log, runVars, sumVars, cliVars>>

\* -------------------------------------------------------------- trace_udp
\* line 24
UdpSocketRecv ==
    /\ pc = "call" /\ ppc = "udp_socket_recv"
    /\ log' = Logged("socket_raw")
    /\ IF Fails("socket_raw")
       THEN /\ Raise("OSError")
            /\ UNCHANGED sockets
       ELSE /\ sockets' = sockets \cup {"recv_socket"}
            /\ ppc' = "udp_socket_send"
            /\ UNCHANGED <<pc, exc>>
    /\ UNCHANGED <<mainVars, loopVars, resVars, out, ready, address,
                   address_name, envVars, calls, runVars, sumVars, cliVars>>

\* line 25
UdpSocketSend ==
    /\ pc = "call" /\ ppc = "udp_socket_send"
    /\ log' = Logged("socket_dgram")
    /\ IF Fails("socket_dgram")
       THEN /\ Raise("OSError")
            /\ UNCHANGED sockets
       ELSE /\ sockets' = sockets \cup {"send_socket"}
            /\ ppc' = "udp_setsockopt"
            /\ UNCHANGED <<pc, exc>>
    /\ UNCHANGED <<mainVars, loopVars, resVars, out, ready, address,
                   address_name, envVars, calls, runVars, sumVars, cliVars>>

\* line 26
UdpSetsockopt ==
    /\ pc = "call" /\ ppc = "udp_setsockopt"
    /\ log' = Logged("setsockopt")
    /\ IF Fails("setsockopt")
       THEN Raise("OSError")
       ELSE /\ ppc' = "udp_bind"
            /\ UNCHANGED <<pc, exc>>
    /\ UNCHANGED <<mainVars, loopVars, resVars, out, sockets, ready, address,
                   address_name, envVars, calls, runVars, sumVars, cliVars>>

\* lines 27-30
UdpBind ==
    /\ pc = "call" /\ ppc = "udp_bind"
    /\ log' = Logged("bind")
    /\ IF Fails("bind")
       THEN /\ Raise("OSError")
            /\ UNCHANGED <<address, address_name>>
       ELSE /\ address' = "None"
            /\ address_name' = "None"
            /\ ppc' = "udp_sendto"
            /\ UNCHANGED <<pc, exc>>
    /\ UNCHANGED <<mainVars, loopVars, resVars, out, sockets, ready, envVars,
                   calls, runVars, sumVars, cliVars>>

\* line 34, and 39-41 when sendto raises socket.error
UdpSendto ==
    /\ pc = "call" /\ ppc = "udp_sendto"
    /\ log' = Logged("sendto")
    /\ out' = Except(Fails("sendto"), "Main query")
    /\ ppc' = IF Fails("sendto") THEN "udp_check" ELSE "udp_select"
    /\ UNCHANGED <<mainVars, pc, loopVars, resVars, exc, sockets, ready,
                   address, address_name, envVars, calls, runVars, sumVars, cliVars>>

\* line 37, and 39-41 when select raises socket.error
UdpSelect ==
    /\ pc = "call" /\ ppc = "udp_select"
    /\ log' = Logged("select")
    /\ out' = Except(Fails("select"), "Main query")
    /\ ready' = IF Fails("select") THEN ready ELSE Selected(env)
    /\ ppc' = "udp_check"
    /\ UNCHANGED <<mainVars, pc, loopVars, resVars, exc, sockets,
                   address, address_name, envVars, calls, runVars, sumVars, cliVars>>

\* UdpTimeoutAddress with line 45 forgotten: address keeps the None of line 29
UdpTimeoutAddressNone == "None"

\* lines 44-46: the result of a probe nobody answered
UdpTimeoutAddress == "*"

UdpCheck ==
    /\ pc = "call" /\ ppc = "udp_check"
    /\ IF ready = "unbound"
       THEN /\ Raise("UnboundLocalError")
            /\ UNCHANGED <<address, address_name>>
       ELSE IF ready = "empty"
       THEN /\ address' = UdpTimeoutAddress
            /\ address_name' = address'
            /\ ppc' = "udp_close"
            /\ UNCHANGED <<pc, exc>>
       ELSE /\ ppc' = "udp_recvfrom"
            /\ UNCHANGED <<pc, exc, address, address_name>>
    /\ UNCHANGED <<mainVars, loopVars, resVars, out, sockets, ready, envVars,
                   calls, log, runVars, sumVars, cliVars>>

\* lines 48-49
UdpRecvfrom ==
    /\ pc = "call" /\ ppc = "udp_recvfrom"
    /\ log' = Logged("recvfrom")
    /\ IF Fails("recvfrom")
       THEN /\ Raise("OSError")
            /\ UNCHANGED address
       ELSE /\ address' = env.addr
            /\ ppc' = "udp_lookup"
            /\ UNCHANGED <<pc, exc>>
    /\ UNCHANGED <<mainVars, loopVars, resVars, out, sockets, ready,
                   address_name, envVars, calls, runVars, sumVars, cliVars>>

\* lines 50-55
UdpLookup ==
    /\ pc = "call" /\ ppc = "udp_lookup"
    /\ log' = Logged("gethostbyaddr")
    /\ out' = Except(~env.dns, "DNS")
    /\ address_name' = Lookup(address, env)
    /\ ppc' = "udp_close"
    /\ UNCHANGED <<mainVars, pc, loopVars, resVars, exc, sockets, ready,
                   address, envVars, calls, runVars, sumVars, cliVars>>

\* lines 57-58
UdpClose ==
    /\ pc = "call" /\ ppc = "udp_close"
    /\ log' = Append(Logged("close"), <<ttl, "close">>)
    /\ sockets' = sockets \ {"send_socket", "recv_socket"}
    /\ ppc' = "udp_return"
    /\ UNCHANGED <<mainVars, pc, loopVars, resVars, out, exc, ready, address,
                   address_name, envVars, calls, runVars, sumVars, cliVars>>

\* UdpReturn that returns the address in place of the name
UdpReturnNoName ==
    /\ pc = "call" /\ ppc = "udp_return"
    /\ answ' = address
    /\ answ_name' = address
    /\ pc' = "print"
    /\ ppc' = "idle"
    /\ UNCHANGED <<mainVars, loopVars, out, exc, sockets, ready, address,
                   address_name, envVars, calls, log, runVars, sumVars, cliVars>>

\* line 60, and the assignment of line 131
UdpReturn ==
    /\ pc = "call" /\ ppc = "udp_return"
    /\ answ' = address
    /\ answ_name' = address_name
    /\ pc' = "print"
    /\ ppc' = "idle"
    /\ UNCHANGED <<mainVars, loopVars, out, exc, sockets, ready, address,
                   address_name, envVars, calls, log, runVars, sumVars, cliVars>>

Main == MainStart \/ MainFor \/ MainPrint \/ MainTest
TraceIcmp ==
    \/ IcmpSocket \/ IcmpSetsockopt \/ IcmpSendto \/ IcmpSelect \/ IcmpCheck
    \/ IcmpRecvfrom \/ IcmpClose \/ IcmpLookup \/ IcmpReturn
TraceUdp ==
    \/ UdpSocketRecv \/ UdpSocketSend \/ UdpSetsockopt \/ UdpBind
    \/ UdpSendto \/ UdpSelect \/ UdpCheck \/ UdpRecvfrom \/ UdpLookup
    \/ UdpClose \/ UdpReturn

Next == Main \/ TraceIcmp \/ TraceUdp

Spec == Init /\ [][Next]_vars

\* -------------------------------------------------- icmp and udp compared
Other(t) == IF t = "icmp" THEN "udp" ELSE "icmp"

\* main called a second time with the other protocol while the environment
\* repeats, ttl by ttl, what it did to the first trace; possible when each
\* of those outcomes is one the other transport can meet
Rerun ==
    /\ run = 1
    /\ pc \in {"done", "raised"}
    /\ \A k \in DOMAIN topo : topo[k] \in Outcomes(Other(t_type))
    /\ first' = [out |-> out, pc |-> pc, exc |-> exc]
    /\ run' = 2
    /\ t_type' = Other(t_type)
    /\ pc' = "start"
    /\ i' = 0 /\ ttl' = 0
    /\ answ' = "None" /\ answ_name' = "None"
    /\ out' = <<>>
    /\ exc' = "none"
    /\ ppc' = "idle"
    /\ sockets' = {}
    /\ ready' = "unbound"
    /\ address' = "None" /\ address_name' = "None"
    /\ env' = NoOutcome
    /\ calls' = <<>>
    /\ log' = <<>>
    /\ UNCHANGED <<dest_ip, max_steps, print_errors, timeout, topo, sumVars,
                   cliVars>>

NextPair == Next \/ Rerun

SpecPair == Init /\ [][NextPair]_vars

\* ------------------------------------------------------------- properties
IsHop(l) == l.kind \in {"hop", "hop_named"}
HopsOf(o) == SelectSeq(o, IsHop)
Hops == HopsOf(out)
Ended == pc \in {"done", "raised"}
PrintedReached(o) == \E k \in DOMAIN o : o[k] = ReachedLine
OpsAt(t) == {log[k][2] : k \in {j \in DOMAIN log : log[j][1] = t}}
InvocationsOf(t) == Cardinality({k \in DOMAIN calls : calls[k] = t})

\* C1: a trace that has ended emitted at most max_steps hop records, and
\* fewer than max_steps only when some emitted hop's address is dest_ip.
C1_HopCount ==
    Ended =>
        /\ Len(Hops) <= max_steps
        /\ Len(Hops) < max_steps =>
               \E k \in DOMAIN Hops : Hops[k].address = dest_ip

\* C2: no failure of a probe ends the trace: it ends only after max_steps
\* probes or when the responding address is dest_ip, never by an exception.
C2_NothingFatal ==
    Ended =>
        /\ exc = "none"
        /\ Len(calls) = max_steps \/ answ = dest_ip

\* C3: whenever no probe is running (between two probes, after the trace,
\* after a probe left by an exception) no socket is open.
C3_SocketsClosed == ppc = "idle" => sockets = {}

\* C4: a hop whose address is dest_ip is the last hop emitted, no probe
\* follows it and Reached is printed next; a trace that ended normally after
\* fewer than max_steps hops ended on such a hop.
C4_StopsAtDestination ==
    /\ \A k \in DOMAIN Hops :
           Hops[k].address = dest_ip =>
               /\ k = Len(Hops)
               /\ Len(calls) = k
               /\ ppc = "idle"
               /\ pc = "test" \/ (pc = "done" /\ out[Len(out)] = ReachedLine)
    /\ (pc = "done" /\ Len(Hops) < max_steps) =>
           /\ Len(Hops) > 0
           /\ Hops[Len(Hops)].address = dest_ip
    /\ (pc = "for" /\ ttl > 0) => answ # dest_ip

C4_Witness ==
    /\ pc = "done"
    /\ max_steps > 1
    /\ Len(Hops) = 1
    /\ Hops[1].address = dest_ip
    /\ Len(calls) = 1

\* C5: a ttl at which select returned nothing readable was probed once, its
\* probe returned '*', '*', one hop record '*' stands at its place, and
\* unless it was the last ttl the trace did not end there.
C5_TimeoutHop ==
    \A k \in DOMAIN topo :
        (topo[k].kind = "timeout" /\ Len(calls) >= k) =>
            /\ InvocationsOf(k) = 1
            /\ (ttl = k /\ pc \in {"print", "test"}) =>
                   (answ = "*" /\ answ_name = "*")
            /\ Len(Hops) >= k => Hops[k] = HopLine(k - 1, "*", "*")
            /\ (ttl = k /\ pc \in {"test", "for"}) => Len(Hops) = k
            /\ (ttl = k /\ Ended) => (k = max_steps /\ pc = "done")
            /\ (Ended /\ k < max_steps) => Len(calls) > k

C5_Witness ==
    /\ Len(topo) >= 2
    /\ topo[1].kind = "timeout"
    /\ Len(calls) = 2
    /\ Hops = <<HopLine(0, "*", "*")>>
    /\ pc = "call"

\* C6: the transport is invoked with ttl 1, 2, 3, ... once each, and main
\* is only outside a probe, about to start the next, when the previous
\* probe has returned and holds no open socket.
C6_Sequential ==
    /\ \A k \in DOMAIN calls : calls[k] = k
    /\ Len(calls) = ttl
    /\ ppc # "idle" => pc = "call"
    /\ pc \in {"start", "for", "print", "test", "done"} =>
           (ppc = "idle" /\ sockets = {})
    /\ Len(Hops) <= Len(calls)
    /\ pc = "call" => Len(Hops) = Len(calls) - 1

C6_Witness ==
    /\ pc = "call"
    /\ Len(calls) = 3
    /\ sockets # {}
    /\ topo[1].kind = "timeout"
    /\ topo[2].kind = "answer"

\* C7: a probe whose sendto raised socket.error still calls select and then
\* returns a timeout or an address to main.
C7_SendErrorStillWaits ==
    (env = Fail("sendto") /\ pc # "call") =>
        /\ "select" \in OpsAt(ttl)
        /\ exc = "none"
        /\ answ \in Addrs \cup {"*"}

\* C8: each emitted hop index is one more than the index emitted before it.
C8_IndicesGapFree ==
    \A k \in DOMAIN Hops : k > 1 => Hops[k].index = Hops[k - 1].index + 1

C8_Witness == Len(Hops) = MaxSteps /\ MaxSteps >= 3

\* C9: with max_steps = 0 no transport is invoked, no socket call is made,
\* no hop record and no Reached line is printed.
C9_ZeroSteps ==
    max_steps = 0 =>
        /\ calls = <<>>
        /\ log = <<>>
        /\ topo = <<>>
        /\ sockets = {}
        /\ Hops = <<>>
        /\ ~PrintedReached(out)
        /\ pc \in {"start", "for", "done"}

C9_Witness == max_steps = 0 /\ pc = "done" /\ out = <<StartLine>>

\* C10: the second trace, run with the other protocol over the outcomes the
\* first one met, printed the same hop records (indices, addresses, names),
\* printed Reached or not as the first did, and ended the same way.
C10_SameTrace ==
    (run = 2 /\ Ended) =>
        /\ HopsOf(out) = HopsOf(first.out)
        /\ PrintedReached(out) = PrintedReached(first.out)
        /\ pc = first.pc
        /\ exc = first.exc

C10_Witness ==
    /\ run = 2
    /\ pc = "done"
    /\ Len(Hops) = 3
    /\ Hops[1].kind = "hop" /\ Hops[1].address = "*"
    /\ Hops[2].kind = "hop_named"
    /\ Hops[3].kind = "hop" /\ Hops[3].address = dest_ip
    /\ PrintedReached(out)

\* ---------------------------------------------- checksum_calc, lines 64-94
\* line 19
ICMP_ECHO_REQUEST == 8
\* line 92: id = int(random.random() * 32000) is one of 0 .. 31999
IdRange == 32000
Identifiers == 0..(IdRange - 1)
ByteOrders == {"little", "big"}

\* ---------------------------------------------------------------- bounds
MaxBuf == 4

\* the two bytes struct.pack writes for an 'H' field in native byte order
PackH(bo, x) ==
    IF bo = "little" THEN <<x % 256, x \div 256>> ELSE <<x \div 256, x % 256>>

\* struct.pack('BBHHH', t, c, chk, ident, seq): no padding, 8 bytes
Pack(bo, t, c, chk, ident, seq) ==
    <<t, c>> \o PackH(bo, chk) \o PackH(bo, ident) \o PackH(bo, seq)

\* socket.htons
Htons(bo, x) ==
    IF bo = "little" THEN (x % 256) * 256 + (x \div 256) ELSE x

\* line 66: (len / 2) * 2 with Python 3's true division is len itself,
\* for odd lengths too (5 / 2 * 2 == 5.0)
CountTo(n) == n

\* lines 72, 77: sum & 0xffffffff. A sum of at most 32768 words is below
\* 2^31 and the mask leaves it as it is; the buffers here are far shorter
Mask32(x) == x

\* SwapBytes left out: the answer of line 82 returned as it is
SwapBytesNot(a) == a

\* line 84: answer >> 8 | (answer << 8 & 0xff00)
SwapBytes(a) == (a \div 256) + ((a * 256) % 65536)

\* lines 79-82: two folds, complement, mask
FoldComplement(x) ==
    LET f1 == (x \div 65536) + (x % 65536)
        f2 == f1 + (f1 \div 65536)
    IN  (-f2 - 1) % 65536

\* lines 92-93: draw of the identifier (in Init), the packet with a zero
\* checksum, and the entry of checksum_calc (lines 65-67)
PackZero ==
    /\ cpc = "pack"
    /\ source_string' = Pack(byteorder, ICMP_ECHO_REQUEST, 0, 0, id, 1)
    /\ sum' = 0
    /\ count' = 0
    /\ cpc' = "loop"
    /\ UNCHANGED <<mainVars, pc, loopVars, resVars, out, exc, probeVars,
                   envVars, calls, log, runVars, byteorder, id, checksum,
                   packet, cliVars>>

\* lines 69-73: one iteration; source_string[count + 1] past the end of the
\* buffer raises IndexError
ChkLoop ==
    /\ cpc = "loop"
    /\ count < CountTo(Len(source_string))
    /\ IF count + 1 >= Len(source_string)
       THEN /\ cpc' = "IndexError"
            /\ UNCHANGED <<sum, count>>
       ELSE /\ sum' = Mask32(sum + source_string[count + 2] * 256
                                 + source_string[count + 1])
            /\ count' = count + 2
            /\ cpc' = "loop"
    /\ UNCHANGED <<mainVars, pc, loopVars, resVars, out, exc, probeVars,
                   envVars, calls, log, runVars, byteorder, id,
                   source_string, checksum, packet, cliVars>>

\* lines 75-85: the trailing byte, the folds, the complement, the swap
ChkReturn ==
    /\ cpc = "loop"
    /\ ~(count < CountTo(Len(source_string)))
    /\ sum' = IF CountTo(Len(source_string)) < Len(source_string)
              THEN Mask32(sum + source_string[Len(source_string)])
              ELSE sum
    /\ checksum' = SwapBytes(FoldComplement(sum'))
    /\ cpc' = "returned"
    /\ UNCHANGED <<mainVars, pc, loopVars, resVars, out, exc, probeVars,
                   envVars, calls, log, runVars, byteorder, id,
                   source_string, count, packet, cliVars>>

\* line 94
PackFinal ==
    /\ cpc = "returned"
    /\ packet' = Pack(byteorder, ICMP_ECHO_REQUEST, 0,
                      Htons(byteorder, checksum), id, 1)
    /\ cpc' = "packed"
    /\ UNCHANGED <<mainVars, pc, loopVars, resVars, out, exc, probeVars,
                   envVars, calls, log, runVars, byteorder, id,
                   source_string, sum, count, checksum, cliVars>>

\* trace_icmp builds its echo request for any identifier it can draw
InitPacket ==
    /\ MainOutside
    /\ CliIdle
    /\ byteorder \in ByteOrders
    /\ id \in Identifiers
    /\ source_string = <<>>
    /\ sum = 0 /\ count = 0
    /\ checksum = 0
    /\ packet = <<>>
    /\ cpc = "pack"

NextPacket == PackZero \/ ChkLoop \/ ChkReturn \/ PackFinal

SpecPacket == InitPacket /\ [][NextPacket]_vars

\* checksum_calc called on any buffer of at most MaxBuf bytes
ByteSample == {0, 1, 128, 255}
Buffers == UNION {[1..n -> ByteSample] : n \in 0..MaxBuf}

InitChecksum ==
    /\ MainOutside
    /\ CliIdle
    /\ byteorder = "little"
    /\ id = 0
    /\ source_string \in Buffers
    /\ sum = 0 /\ count = 0
    /\ checksum = 0
    /\ packet = <<>>
    /\ cpc = "loop"

NextChecksum == ChkLoop \/ ChkReturn

SpecChecksum == InitChecksum /\ [][NextChecksum]_vars

\* ----------------------------------------------- properties of checksums
\* the one's-complement sum of a buffer: 16-bit words low + high * 256 of
\* consecutive byte pairs, a trailing odd byte alone
RECURSIVE WordSum(_)
WordSum(b) ==
    IF Len(b) = 0 THEN 0
    ELSE IF Len(b) = 1 THEN b[1]
    ELSE b[1] + b[2] * 256 + WordSum(SubSeq(b, 3, Len(b)))

RECURSIVE Fold(_)
Fold(x) == IF x < 65536 THEN x ELSE Fold((x \div 65536) + (x % 65536))

RefChecksum(b) ==
    LET c == 65535 - Fold(WordSum(b))
    IN  (c \div 256) + (c % 256) * 256

\* C11: the echo request built for any identifier 0..31999 sums, checksum
\* field included, to 0xFFFF after folding, whose complement is 0.
C11_ChecksumSelfConsistent ==
    cpc = "packed" =>
        /\ Len(packet) = 8
        /\ Fold(WordSum(packet)) = 65535
        /\ 65535 - Fold(WordSum(packet)) = 0

C11_Witness ==
    /\ cpc = "packed"
    /\ id = IdRange - 1
    /\ byteorder = "little"
    /\ packet[1] = ICMP_ECHO_REQUEST
    /\ checksum # 0

\* C16: checksum_calc returns, for every buffer, the reference value and
\* never raises.
C16_ChecksumAgrees ==
    /\ cpc # "IndexError"
    /\ cpc = "returned" => checksum = RefChecksum(source_string)

\* ------------------------------------------ properties of output, lookup
\* the address and the name the probe at ttl k returns under topo[k]
AddressAt(k) == IF topo[k].kind = "timeout" THEN "*" ELSE topo[k].addr
NameAt(k) ==
    IF topo[k].kind = "timeout" THEN "*"
    ELSE IF topo[k].dns THEN HostName(topo[k].addr) ELSE topo[k].addr
CountOf(k, o) == Cardinality({j \in DOMAIN log : log[j] = <<k, o>>})
Exited(k) == Len(calls) >= k /\ (ttl > k \/ pc # "call")
SawReadable(k) ==
    topo[k].kind = "answer" \/ topo[k] = Fail("recvfrom")

\* C12: Reached is printed only as the last line, right after the line of a
\* hop whose address is dest_ip, and a trace that ended printed it exactly
\* when such a hop was emitted; a hop line has the short form when name and
\* address are equal and the form with the name otherwise.
C12_ReachedAndFormat ==
    /\ \A k \in DOMAIN out :
           out[k] = ReachedLine =>
               /\ k = Len(out)
               /\ k > 1
               /\ IsHop(out[k - 1])
               /\ out[k - 1].address = dest_ip
               /\ pc = "done"
    /\ Ended =>
           (PrintedReached(out) <=>
                \E k \in DOMAIN Hops : Hops[k].address = dest_ip)
    /\ \A k \in DOMAIN Hops :
           /\ Hops[k].address = AddressAt(k)
           /\ IF NameAt(k) = AddressAt(k)
              THEN Hops[k].kind = "hop" /\ Hops[k].name = ""
              ELSE Hops[k].kind = "hop_named" /\ Hops[k].name = NameAt(k)

C12_Witness ==
    /\ pc = "done"
    /\ Len(Hops) = 3
    /\ Hops[1].kind = "hop_named"
    /\ Hops[2].kind = "hop" /\ Hops[2].address \in Addrs
    /\ Hops[3].address = dest_ip
    /\ out[Len(out)] = ReachedLine

\* C13: a probe that called gethostbyaddr is not left by an exception, and
\* returns a name that is not empty; when the lookup failed the name is the
\* responding address.
C13_LookupNeverFails ==
    \A k \in DOMAIN topo :
        (Len(calls) >= k /\ CountOf(k, "gethostbyaddr") > 0) =>
            /\ ~(ttl = k /\ pc = "raised")
            /\ (ttl = k /\ pc = "call") =>
                   /\ address_name \notin {"", "None"}
                   /\ ~topo[k].dns =>
                          (address_name = address /\ address = topo[k].addr)
            /\ (ttl = k /\ pc \in {"print", "test"}) =>
                   /\ answ_name \notin {"", "None"}
                   /\ ~topo[k].dns =>
                          (answ_name = answ /\ answ = topo[k].addr)
            /\ (Len(Hops) >= k /\ ~topo[k].dns) =>
                   (Hops[k].kind = "hop" /\ Hops[k].address = topo[k].addr)

C13_Witness ==
    /\ pc = "test"
    /\ ttl = 2
    /\ topo[2].kind = "answer" /\ ~topo[2].dns
    /\ answ = topo[2].addr
    /\ answ_name = answ
    /\ CountOf(2, "gethostbyaddr") = 1

\* C17: the k-th emitted hop record carries index k - 1, the index that
\* goes with hop-limit ttl is ttl - 1, and no index exceeds max_steps - 1.
C17_IndexIsTtlMinusOne ==
    /\ \A k \in DOMAIN Hops :
           Hops[k].index = k - 1 /\ Hops[k].index <= max_steps - 1
    /\ pc \in {"call", "print", "test"} => i = ttl - 1

C17_Witness ==
    /\ max_steps = MaxSteps
    /\ Len(Hops) = MaxSteps
    /\ Hops[MaxSteps].index = MaxSteps - 1
    /\ Hops[1].index = 0

IntWords == {"-5", "-1", "0", "1", "40"}
Words == IntWords \cup {"x"}
ParseInt(w) ==
    CASE w = "-5" -> -5
      [] w = "-1" -> -1
      [] w = "0" -> 0
      [] w = "1" -> 1
      [] w = "40" -> 40

\* what the user can name as destination, and socket.gethostbyname of it
Typed == {"10.0.0.1", "far.example", "no.such.host"}
Resolvable == {"10.0.0.1", "10.0.0.9", "far.example"}
Resolve(h) == IF h = "far.example" THEN "10.0.0.9" ELSE h

Option(S) == {None} \cup {Some(x) : x \in S}
CommandLines ==
    [destination : Option(Typed), timeout : Option(Words),
     max_steps : Option(Words), t_type : Option({"icmp", "udp", "tcp"})]

InitCli ==
    /\ MainOutside
    /\ SumIdle
    /\ argv \in CommandLines
    /\ typed \in Typed
    /\ args = NoArgs
    /\ epc = "begin"

\* line 142: len(sys.argv) >= 2
CliBegin ==
    /\ epc = "begin"
    /\ epc' = IF argv # NoArgs THEN "parse" ELSE "input"
    /\ UNCHANGED <<mainVars, pc, loopVars, resVars, out, exc, probeVars,
                   envVars, calls, log, runVars, sumVars, argv, typed, args>>

ParseOption(o) == IF o = None THEN None ELSE Some(ParseInt(o[1]))
Parses(o) == o = None \/ o[1] \in IntWords

\* lines 143-169: parse_args leaves the program when the destination is
\* missing or an int option is no integer
CliParse ==
    /\ epc = "parse"
    /\ IF argv.destination # None /\ Parses(argv.timeout)
              /\ Parses(argv.max_steps)
       THEN /\ args' = [destination |-> argv.destination,
                        timeout |-> ParseOption(argv.timeout),
                        max_steps |-> ParseOption(argv.max_steps),
                        t_type |-> argv.t_type]
            /\ epc' = "timeout"
       ELSE /\ args' = args
            /\ epc' = "exit"
    /\ UNCHANGED <<mainVars, pc, loopVars, resVars, out, exc, probeVars,
                   envVars, calls, log, runVars, sumVars, argv, typed>>

\* CliTimeout without the test for a negative value
CliTimeoutNoSignTest ==
    /\ epc = "timeout"
    /\ args' = [args EXCEPT !.timeout =
                   IF args.timeout # None THEN args.timeout
                   ELSE Some(DefaultTimeout)]
    /\ epc' = "max_steps"
    /\ UNCHANGED <<mainVars, pc, loopVars, resVars, out, exc, probeVars,
                   envVars, calls, log, runVars, sumVars, argv, typed>>

\* lines 171-175
CliTimeout ==
    /\ epc = "timeout"
    /\ args' = [args EXCEPT !.timeout =
                   IF args.timeout # None
                   THEN IF args.timeout[1] < 0 THEN Some(1) ELSE args.timeout
                   ELSE Some(1)]
    /\ epc' = "max_steps"
    /\ UNCHANGED <<mainVars, pc, loopVars, resVars, out, exc, probeVars,
                   envVars, calls, log, runVars, sumVars, argv, typed>>

\* lines 177-181
CliMaxSteps ==
    /\ epc = "max_steps"
    /\ args' = [args EXCEPT !.max_steps =
                   IF args.max_steps # None
                   THEN IF args.max_steps[1] < 0 THEN Some(32)
                        ELSE args.max_steps
                   ELSE Some(32)]
    /\ epc' = "t_type"
    /\ UNCHANGED <<mainVars, pc, loopVars, resVars, out, exc, probeVars,
                   envVars, calls, log, runVars, sumVars, argv, typed>>

\* lines 183-187
CliType ==
    /\ epc = "t_type"
    /\ args' = [args EXCEPT !.t_type =
                   IF args.t_type # None
                   THEN IF args.t_type[1] \notin {"icmp", "udp"}
                        THEN Some("icmp") ELSE args.t_type
                   ELSE Some("icmp")]
    /\ epc' = "call_main"
    /\ UNCHANGED <<mainVars, pc, loopVars, resVars, out, exc, probeVars,
                   envVars, calls, log, runVars, sumVars, argv, typed>>

\* line 189: main(args.destination, args.timeout, args.max_steps,
\* args.t_type), print_errors left at its default
CliCallMain ==
    /\ epc = "call_main"
    /\ dest_ip' = args.destination[1]
    /\ timeout' = args.timeout[1]
    /\ max_steps' = args.max_steps[1]
    /\ t_type' = args.t_type[1]
    /\ print_errors' = FALSE
    /\ pc' = "start"
    /\ epc' = "main"
    /\ UNCHANGED <<loopVars, resVars, out, exc, probeVars, envVars, calls,
                   log, runVars, sumVars, argv, typed, args>>

\* line 194
DestinationLine(d, ip) ==
    [kind |-> "destination", index |-> 0, address |-> ip, name |-> d]

\* lines 191-194: the answer to input() resolved by socket.gethostbyname,
\* whose socket.gaierror nothing catches
CliInput ==
    /\ epc = "input"
    /\ IF typed \in Resolvable
       THEN /\ dest_ip' = Resolve(typed)
            /\ out' = Append(out, DestinationLine(typed, dest_ip'))
            /\ exc' = exc
            /\ epc' = "call_main_default"
       ELSE /\ exc' = "gaierror"
            /\ epc' = "exit"
            /\ UNCHANGED <<dest_ip, out>>
    /\ UNCHANGED <<max_steps, t_type, print_errors, timeout, pc, loopVars,
                   resVars, probeVars, envVars, calls, log, runVars, sumVars,
                   argv, typed, args>>

\* line 195: main(dest_ip), every other parameter at its default
CliCallMainDefault ==
    /\ epc = "call_main_default"
    /\ dest_ip' = dest_ip
    /\ timeout' = DefaultTimeout
    /\ max_steps' = DefaultMaxSteps
    /\ t_type' = "icmp"
    /\ print_errors' = FALSE
    /\ pc' = "start"
    /\ epc' = "main"
    /\ UNCHANGED <<loopVars, resVars, out, exc, probeVars, envVars, calls,
                   log, runVars, sumVars, argv, typed, args>>

NextCli ==
    \/ CliBegin \/ CliParse \/ CliTimeout \/ CliMaxSteps \/ CliType
    \/ CliCallMain \/ CliInput \/ CliCallMainDefault

SpecCli == InitCli /\ [][NextCli]_vars

\* -------------------------------------------- properties of the entry
Negative(o) == o # None /\ o[1] \in IntWords /\ ParseInt(o[1]) < 0
UserTyped == IF argv # NoArgs THEN argv.destination[1] ELSE typed

\* C14: main is entered with timeout >= 0; a missing or negative timeout
\* arrives as 1, a missing or negative max_steps as 32, a missing protocol
\* or one outside {icmp, udp} as icmp, from the command line and from the
\* prompt alike.
C14_CoercedBeforeMain ==
    epc = "main" =>
        /\ pc = "start"
        /\ timeout >= 0
        /\ (argv.timeout = None \/ Negative(argv.timeout)) => timeout = 1
        /\ (argv.max_steps = None \/ Negative(argv.max_steps)) =>
               max_steps = 32
        /\ (argv.t_type = None \/ argv.t_type[1] \notin {"icmp", "udp"}) =>
               t_type = "icmp"

C14_Witness ==
    /\ epc = "main"
    /\ argv.timeout = Some("-5")
    /\ argv.max_steps = Some("-1")
    /\ argv.t_type = Some("tcp")
    /\ timeout = 1 /\ max_steps = 32 /\ t_type = "icmp"

\* C15: main is entered, from the command line and from the prompt alike,
\* with the address literal that what the user typed resolves to.
C15_DestinationResolved ==
    epc = "main" => (dest_ip \in Addrs /\ dest_ip = Resolve(UserTyped))

====
